---- MODULE Spec2Model ----
(***************************************************************************)
(* Model of the Instagram insights service (src/app.py): the upstream-call *)
(* helper make_api_call with its bounded 429 retry loop, and the handlers   *)
(* and helpers built on it.                                                 *)
(*                                                                          *)
(* Values that are text in the program are tagged records here:             *)
(*   - a Retry-After header is [kind, val]: absent, a decimal number of     *)
(*     seconds, or an HTTP-date (the two forms RFC 9110 allows);            *)
(*   - a response body is [kind, val]: "text" (not JSON), "array" (JSON,    *)
(*     not an object), "object" (a JSON object without an "error" member)   *)
(*     or "error_obj" ({"error": {"message": val}});                        *)
(*   - an HTTPException detail is [kind, val].                              *)
(* Numbers that are floats in the program are exact rationals here.         *)
(***************************************************************************)
EXTENDS Integers, Sequences, FiniteSets, TLC

VARIABLES
    \* make_api_call (src/app.py:225-262)
    api_pc,            \* "idle" | "loop" (at the while test) | "done"
    url,               \* which upstream resource the call is for
    retries,
    max_retries,
    initial_backoff,
    outcome,           \* how make_api_call ended: a return or a raised exception
    trace,             \* history: every requests.get and every time.sleep, in order
    \* the request handlers
    handler,           \* which entry point is running
    pc,                \* position in the handler
    period,            \* /account-insights query parameter
    limit,             \* /top-posts query parameter
    posts,             \* fetch_recent_posts' result
    post_index,        \* position of the for loop over posts
    posts_with_engagement,
    result,            \* what the handler gave the caller
    calls,             \* history: the make_api_call invocations of this request
    \* calculate_growth
    current_value,
    previous_value,
    metric_name,
    growth,
    \* get_growth_trends and fetch_account_data
    days,
    start_date,
    mid_date,
    end_date,
    fetches,           \* history: the since/until of every fetch_account_data call
    current_data,
    previous_data

vars == <<api_pc, url, retries, max_retries, initial_backoff, outcome, trace,
          handler, pc, period, limit, posts, post_index, posts_with_engagement,
          result, calls, current_value, previous_value, metric_name, growth,
          days, start_date, mid_date, end_date, fetches, current_data,
          previous_data>>

api_vars == <<api_pc, url, retries, max_retries, initial_backoff, outcome, trace>>

handler_vars == <<handler, pc, period, limit, posts, post_index,
                  posts_with_engagement, result, calls>>

growth_vars == <<current_value, previous_value, metric_name, growth>>

trend_vars == <<days, start_date, mid_date, end_date, fetches, current_data,
                previous_data>>

-----------------------------------------------------------------------------
(* Bounds of the model *)

MaxRetries == 3        \* max_retries of a direct call ranges over 0..MaxRetries
MaxBackoff == 2        \* initial_backoff of a direct call ranges over 1..MaxBackoff
MaxRetryAfter == 1     \* a numeric Retry-After ranges over 0..MaxRetryAfter
MaxPayload == 2        \* distinct opaque payloads / upstream messages
MaxPosts == 2          \* posts the media listing returns: 0..MaxPosts
MaxCount == 1          \* like_count and comments_count range over 0..MaxCount
MaxLimit == 2          \* valid limit values tried: 1..MaxLimit
MaxEntries == 2        \* entries of an insights reply: 0..MaxEntries
MaxNum == 4            \* numerators of calculate_growth's inputs: -1..MaxNum
MaxDen == 2            \* denominators of calculate_growth's inputs: 1..MaxDen
MaxDays == 2           \* lookback periods of /growth-trends: 0..MaxDays days
MaxClock == 1          \* datetime.now() ranges over ClockBase..ClockBase + MaxClock
MaxSeries == 2         \* entries of an account-data reply: 0..MaxSeries
MaxPoints == 2         \* data points in the values of one entry: 0..MaxPoints
MaxValue == 1          \* the value of a data point ranges over 1..MaxValue

(* Program constants *)

DefaultMaxRetries == 3
DefaultInitialBackoff == 5
LimitGe == 1
LimitLe == 50
SecondsPerDay == 86400           \* timedelta(days=1).total_seconds()
DaysBeforeEpoch == 719162        \* days from datetime.min to 1970-01-01

-----------------------------------------------------------------------------
(* Upstream replies *)

Absent == [kind |-> "absent", val |-> 0]

RetryAfterHeaders ==
    {Absent, [kind |-> "http_date", val |-> 0]}
        \cup {[kind |-> "seconds", val |-> s] : s \in 0..MaxRetryAfter}

NoBody == [kind |-> "none", val |-> 0]

NoDetail == [kind |-> "none", val |-> 0]

Statuses == {200, 304, 400, 429, 500}

NetworkFailure ==
    [net |-> "fail", status |-> 0, retry_after |-> Absent, body |-> NoBody]


(* A reply to one requests.get: the status line, the Retry-After header and *)
(* the body, or no reply at all (a transport failure).                      *)
Reply(status, retry_after, body) ==
    [net |-> "ok", status |-> status, retry_after |-> retry_after, body |-> body]

(* The JSON objects an upstream resource can answer with (the "object" body *)
(* kind). A direct call sees opaque payloads; the resources the handlers    *)
(* read are defined with the handlers below.                                *)
RawObjects == 1..MaxPayload

-----------------------------------------------------------------------------
(* Outcomes of make_api_call and of the handlers: a return or an exception  *)

NoOutcome == [kind |-> "none", status |-> 0, detail |-> NoDetail, body |-> NoBody]

Returned(body) ==
    [kind |-> "return", status |-> 0, detail |-> NoDetail, body |-> body]

Raised(class) ==
    [kind |-> class, status |-> 0, detail |-> NoDetail, body |-> NoBody]

HTTPException(status_code, detail) ==
    [kind |-> "HTTPException", status |-> status_code, detail |-> detail,
     body |-> NoBody]

\* "Rate limit exceeded. Please try again later."
RateLimitDetail == [kind |-> "rate_limit", val |-> 0]

\* f"Request failed: {str(req_err)}"
RequestFailedDetail == [kind |-> "request_failed", val |-> 0]

\* f"Invalid JSON response: {str(json_err)}"
InvalidJsonDetail == [kind |-> "invalid_json", val |-> 0]

-----------------------------------------------------------------------------
(* make_api_call, one pass of its while loop *)

(* The class of the exception Response.json() raises on a body that is not  *)
(* JSON. It is set by the installed requests library: json.JSONDecodeError  *)
(* (a ValueError) before requests 2.27, requests.JSONDecodeError (both a    *)
(* RequestException and a ValueError) from 2.27 on.                        *)
JSONErrorClasses == {"json.JSONDecodeError", "requests.JSONDecodeError"}

IsA(class, base) ==
    \/ class = base
    \/ class \in {"HTTPError", "ConnectionError", "requests.JSONDecodeError"}
         /\ base = "RequestException"
    \/ class \in {"json.JSONDecodeError", "requests.JSONDecodeError"}
         /\ base = "ValueError"

(* The except clause of the try statement that takes an exception raised in *)
(* the try body: the first one, in source order, whose class matches.       *)
ExceptClause(class) ==
    IF IsA(class, "HTTPError") THEN "HTTPError"
    ELSE IF IsA(class, "RequestException") THEN "RequestException"
    ELSE IF IsA(class, "ValueError") THEN "ValueError"
    ELSE "uncaught"

(* Response.raise_for_status(): raises HTTPError for 4xx and 5xx only.      *)
raise_for_status(status) == status >= 400 /\ status < 600

(* What the try body (lines 229-231) does with a reply: the body it returns *)
(* or the class of the exception it raises.                                 *)
TryBody(r, json_error) ==
    IF r.net = "fail" THEN [raised |-> "ConnectionError"]
    ELSE IF raise_for_status(r.status) THEN [raised |-> "HTTPError"]
    ELSE IF r.body.kind = "text" THEN [raised |-> json_error]
    ELSE [raised |-> "none"]

(* int(response.headers.get("Retry-After", initial_backoff)): the header's  *)
(* decimal number, the fallback when the header is absent, and a ValueError *)
(* for text that is no decimal number (an HTTP-date).                       *)
retry_after_seconds(header, backoff) ==
    CASE header.kind = "absent" -> [ok |-> TRUE, secs |-> backoff]
      [] header.kind = "seconds" -> [ok |-> TRUE, secs |-> header.val]
      [] OTHER -> [ok |-> FALSE, secs |-> 0]

Stop(o) == [next |-> "done", secs |-> 0, outcome |-> o]

RetryAfterSleep(secs) == [next |-> "retry", secs |-> secs, outcome |-> NoOutcome]

(* Whether a 429 on this pass is slept on and retried (line 235).           *)
MayRetry(n, bound) == n < bound - 1

(* response.json().get("error", {}).get("message", str(http_err)), and the  *)
(* HTTPException raised with it (lines 245-250). An exception raised while  *)
(* computing it is raised inside an except clause, so no sibling clause     *)
(* takes it: it leaves make_api_call as it is.                              *)
ErrorDetail(r, json_error) ==
    CASE r.body.kind = "error_obj" ->
            Stop(HTTPException(r.status,
                               [kind |-> "upstream_message", val |-> r.body.val]))
      [] r.body.kind = "object" ->
            Stop(HTTPException(r.status,
                               [kind |-> "http_err_str", val |-> r.status]))
      [] r.body.kind = "text" -> Stop(Raised(json_error))
      [] OTHER -> Stop(Raised("AttributeError"))

(* except requests.HTTPError (lines 232-250) *)
OnHTTPError(r, json_error, n, bound, backoff) ==
    IF r.status = 429
    THEN LET retry_after == retry_after_seconds(r.retry_after, backoff) IN
         IF ~retry_after.ok THEN Stop(Raised("ValueError"))
         ELSE IF MayRetry(n, bound) THEN RetryAfterSleep(retry_after.secs)
         ELSE Stop(HTTPException(429, RateLimitDetail))
    ELSE ErrorDetail(r, json_error)

(* One pass of the loop body (lines 228-258) on reply r.                    *)
LoopBody(r, json_error, n, bound, backoff) ==
    LET t == TryBody(r, json_error) IN
    IF t.raised = "none" THEN Stop(Returned(r.body))
    ELSE CASE ExceptClause(t.raised) = "HTTPError" ->
                 OnHTTPError(r, json_error, n, bound, backoff)
           [] ExceptClause(t.raised) = "RequestException" ->
                 Stop(HTTPException(500, RequestFailedDetail))
           [] ExceptClause(t.raised) = "ValueError" ->
                 Stop(HTTPException(500, InvalidJsonDetail))
           [] OTHER -> Stop(Raised(t.raised))

GetEvent(r) == [ev |-> "get", reply |-> r, secs |-> 0]

SleepEvent(secs) == [ev |-> "sleep", reply |-> NetworkFailure, secs |-> secs]


-----------------------------------------------------------------------------
(* What the upstream resources answer with *)

MediaTypes == {"IMAGE", "VIDEO"}

(* The media listing: up to MaxPosts posts; a post's id is its position in  *)
(* the listing. permalink and caption are copied through and left out.      *)
PostLists ==
    UNION {{[i \in 1..n |-> [id |-> i, media_type |-> f[i]]] :
                f \in [1..n -> MediaTypes]} : n \in 0..MaxPosts}

EngagementObjects == [like_count : 0..MaxCount, comments_count : 0..MaxCount]

(* The fields class InsightData declares (lines 21-27). *)
DeclaredFields == {"name", "period", "values", "title", "description", "id"}

MetricNames == {"impressions", "reach"}

(* An entry of an insights reply: the declared fields alone, the declared   *)
(* fields and one more, or an entry without "values".                       *)
Title(m) == IF m = "impressions" THEN "Impressions" ELSE "Reach"

Description(m) ==
    IF m = "impressions" THEN "Total number of times the media have been viewed"
    ELSE "Total number of unique accounts that have seen the media"

InsightId(m) ==
    IF m = "impressions" THEN "12345/insights/impressions/day"
    ELSE "12345/insights/reach/day"

InsightEntry(m) ==
    [name |-> m, period |-> "day", values |-> <<[value |-> 1]>>,
     title |-> Title(m), description |-> Description(m), id |-> InsightId(m)]

InsightEntryWithExtra(m) ==
    [name |-> m, period |-> "day", values |-> <<[value |-> 1]>>,
     title |-> Title(m), description |-> Description(m), id |-> InsightId(m),
     total_value |-> 1]

InsightEntryWithoutValues(m) ==
    [name |-> m, period |-> "day", title |-> Title(m),
     description |-> Description(m), id |-> InsightId(m), total_value |-> 1]

InsightEntries ==
    UNION {{InsightEntry(m), InsightEntryWithExtra(m),
            InsightEntryWithoutValues(m)} : m \in MetricNames}

InsightLists ==
    UNION {[1..n -> InsightEntries] : n \in 0..MaxEntries}

(* The metrics fetch_account_data asks for (line 304) *)
AccountMetrics == {"follower_count", "reach", "impressions"}

(* The values of one entry of a period=day reply: one data point for every  *)
(* day of the window asked for, each with its value and the day it ends.    *)
PointLists ==
    UNION {{[i \in 1..n |-> [value |-> f[i], end_time |-> i]] :
                f \in [1..n -> 1..MaxValue]} : n \in 0..MaxPoints}

AccountEntries ==
    {[name |-> m, period |-> "day", values |-> v] :
        m \in AccountMetrics, v \in PointLists}

AccountDataLists ==
    UNION {[1..n -> AccountEntries] : n \in 0..MaxSeries}

Objects(u) ==
    CASE u = "raw" -> RawObjects
      [] u = "account" -> {[data |-> l] : l \in AccountDataLists}
      [] u = "media" -> {[data |-> l] : l \in PostLists}
      [] u = "post" -> EngagementObjects
      [] u = "insights" -> {[data |-> l] : l \in InsightLists}

Bodies(u) ==
    {[kind |-> "text", val |-> 0], [kind |-> "array", val |-> 0]}
        \cup {[kind |-> "error_obj", val |-> m] : m \in 1..MaxPayload}
        \cup {[kind |-> "object", val |-> v] : v \in Objects(u)}

Replies(u) ==
    {NetworkFailure}
        \cup {Reply(s, h, b) : s \in Statuses, h \in RetryAfterHeaders,
                               b \in Bodies(u)}

-----------------------------------------------------------------------------
(* make_api_call as a process *)

(* The call is entered: line 226. *)
EnterCall(u, bound, backoff) ==
    /\ api_pc' = "loop"
    /\ url' = u
    /\ retries' = 0
    /\ max_retries' = bound
    /\ initial_backoff' = backoff
    /\ outcome' = NoOutcome
    /\ trace' = <<>>

(* The while test and one pass of the loop (lines 227-258), or the raise    *)
(* after the loop (lines 260-262). The history of requests and sleeps is    *)
(* kept for a direct call; under a handler only the outcome is observed.    *)
make_api_call ==
    /\ api_pc = "loop"
    /\ IF retries < max_retries
       THEN \E r \in Replies(url), json_error \in JSONErrorClasses :
              LET h == LoopBody(r, json_error, retries, max_retries,
                                initial_backoff)
              IN  /\ retries' = IF h.next = "retry" THEN retries + 1 ELSE retries
                  /\ api_pc' = IF h.next = "retry" THEN "loop" ELSE "done"
                  /\ outcome' = h.outcome
                  /\ trace' = IF handler # "direct" THEN trace
                              ELSE IF h.next = "retry"
                                   THEN trace \o <<GetEvent(r), SleepEvent(h.secs)>>
                                   ELSE Append(trace, GetEvent(r))
       ELSE /\ outcome' = HTTPException(429, RateLimitDetail)
            /\ api_pc' = "done"
            /\ UNCHANGED <<retries, trace>>
    /\ UNCHANGED <<url, max_retries, initial_backoff>>
    /\ UNCHANGED handler_vars
    /\ UNCHANGED growth_vars
    /\ UNCHANGED trend_vars

NoTrend == [metric |-> "", current_value |-> [num |-> 0, den |-> 1],
            previous_value |-> [num |-> 0, den |-> 1],
            growth_rate |-> [num |-> 0, den |-> 1]]

Zero == [num |-> 0, den |-> 1]

IdleHandler(h, start) ==
    /\ handler = h
    /\ pc = start
    /\ period = ""
    /\ limit = 0
    /\ posts = <<>>
    /\ post_index = 0
    /\ posts_with_engagement = <<>>
    /\ result = NoOutcome
    /\ calls = <<>>

IdleApi ==
    /\ api_pc = "idle"
    /\ url = ""
    /\ retries = 0
    /\ max_retries = 0
    /\ initial_backoff = 0
    /\ outcome = NoOutcome
    /\ trace = <<>>

IdleGrowth ==
    /\ current_value = Zero
    /\ previous_value = Zero
    /\ metric_name = ""
    /\ growth = NoTrend

NoDate == [secs |-> 0, micros |-> 0]

NoAccountData == [follower_count |-> 0, engagement_rate |-> Zero]

IdleTrends ==
    /\ days = 0
    /\ start_date = NoDate
    /\ mid_date = NoDate
    /\ end_date = NoDate
    /\ fetches = <<>>
    /\ current_data = NoAccountData
    /\ previous_data = NoAccountData

(* A direct call make_api_call(url, params, max_retries, initial_backoff),  *)
(* just entered.                                                            *)
InitApi ==
    /\ IdleHandler("direct", "call")
    /\ IdleGrowth
    /\ IdleTrends
    /\ api_pc = "loop"
    /\ url = "raw"
    /\ retries = 0
    /\ max_retries \in 0..MaxRetries
    /\ initial_backoff \in 1..MaxBackoff
    /\ outcome = NoOutcome
    /\ trace = <<>>

NextApi == make_api_call

SpecApi == InitApi /\ [][NextApi]_vars


-----------------------------------------------------------------------------
(* Reading the history of a direct call *)

Gets == SelectSeq(trace, LAMBDA e : e.ev = "get")

Sleeps == SelectSeq(trace, LAMBDA e : e.ev = "sleep")

Is429(e) == e.ev = "get" /\ e.reply.net = "ok" /\ e.reply.status = 429

Is2xxJson(e) ==
    /\ e.ev = "get"
    /\ e.reply.net = "ok"
    /\ e.reply.status >= 200 /\ e.reply.status < 300
    /\ e.reply.body.kind # "text"

All429(s) == \A i \in 1..Len(s) : Is429(s[i])

LastGet == Gets[Len(Gets)]

EndsWithGet == trace # <<>> /\ trace[Len(trace)].ev = "get"

(* C1: for max_retries >= 1 and k < max_retries, when the upstream answers  *)
(* 429 to the first k requests and a 2xx JSON body to request k+1, the call *)
(* returns that body. Stated on the history: after k < max_retries answers  *)
(* that were all 429 the call has not ended (it goes on to request k+1),    *)
(* and a call whose last answer is 2xx JSON after 429s alone returned that  *)
(* answer's body.                                                           *)
C1_RetriedThenReturnsBody ==
    max_retries >= 1 =>
        /\ (Len(Gets) < max_retries /\ All429(Gets)) => api_pc = "loop"
        /\ ( /\ api_pc = "done"
             /\ Gets # <<>>
             /\ Len(Gets) <= max_retries
             /\ All429(SubSeq(Gets, 1, Len(Gets) - 1))
             /\ Is2xxJson(LastGet) )
           => outcome = Returned(LastGet.reply.body)

(* C2: when every answer is 429, the call ends with HTTPException 429       *)
(* (rate limit) after exactly max_retries requests and max_retries - 1      *)
(* sleeps, the last 429 being followed by no request and no sleep. Stated   *)
(* for max_retries >= 1.                                                    *)
C2_All429EndsRateLimited ==
    (api_pc = "done" /\ max_retries >= 1 /\ All429(Gets)) =>
        /\ outcome = HTTPException(429, RateLimitDetail)
        /\ Len(Gets) = max_retries
        /\ Len(Sleeps) = max_retries - 1
        /\ EndsWithGet

(* C3: an answer with a 4xx/5xx status other than 429 ends the call at once *)
(* with an HTTPException of that status whose detail is the upstream's      *)
(* message, whatever the body of the answer, with no sleep and no further   *)
(* request.                                                                 *)
C3_ErrorStatusPropagated ==
    ( /\ Gets # <<>>
      /\ LastGet.reply.net = "ok"
      /\ raise_for_status(LastGet.reply.status)
      /\ LastGet.reply.status # 429 )
    => /\ api_pc = "done"
       /\ EndsWithGet
       /\ outcome.kind = "HTTPException"
       /\ outcome.status = LastGet.reply.status
       /\ LastGet.reply.body.kind = "error_obj" =>
              outcome.detail = [kind |-> "upstream_message",
                                val |-> LastGet.reply.body.val]

(* C4: a transport failure ends the call with HTTPException 500 "Request    *)
(* failed: ...", a 2xx answer whose body is not JSON ends it with           *)
(* HTTPException 500 "Invalid JSON response: ..."; neither is retried.      *)
C4_TransportAndJsonFailuresDistinct ==
    /\ (Gets # <<>> /\ LastGet.reply.net = "fail") =>
           /\ api_pc = "done"
           /\ EndsWithGet
           /\ outcome = HTTPException(500, RequestFailedDetail)
    /\ ( /\ Gets # <<>>
         /\ LastGet.reply.net = "ok"
         /\ LastGet.reply.status >= 200 /\ LastGet.reply.status < 300
         /\ LastGet.reply.body.kind = "text" ) =>
           /\ api_pc = "done"
           /\ EndsWithGet
           /\ outcome = HTTPException(500, InvalidJsonDetail)

(* C10: every sleep directly follows a 429 answer and lasts that answer's   *)
(* Retry-After seconds, or initial_backoff when the header is absent; every *)
(* request after the first directly follows one sleep; and a 429 answer     *)
(* ends in a retry (a sleep) or in the rate-limit failure, nothing else.    *)
C10_SleepFollows429ForRetryAfter ==
    /\ \A i \in 1..Len(trace) :
          /\ trace[i].ev = "sleep" =>
                /\ i > 1
                /\ Is429(trace[i - 1])
                /\ trace[i].secs =
                      IF trace[i - 1].reply.retry_after.kind = "absent"
                      THEN initial_backoff
                      ELSE trace[i - 1].reply.retry_after.val
          /\ (trace[i].ev = "get" /\ i > 1) => trace[i - 1].ev = "sleep"
          /\ (Is429(trace[i]) /\ i < Len(trace)) => trace[i + 1].ev = "sleep"
    /\ (Gets # <<>> /\ Is429(LastGet) /\ EndsWithGet) =>
          /\ api_pc = "done"
          /\ outcome = HTTPException(429, RateLimitDetail)


-----------------------------------------------------------------------------
(* Handlers: what they share *)

(* A handler calls make_api_call(url, params): the defaults of line 225.    *)
CallUpstream(u, id, history) ==
    /\ EnterCall(u, DefaultMaxRetries, DefaultInitialBackoff)
    /\ calls' = Append(history, [url |-> u, id |-> id, period |-> period,
                                 ended |-> "pending", body |-> NoBody])

(* The history with the call that just ended marked: how it ended, and the  *)
(* body it returned.                                                        *)
CallEnded ==
    [calls EXCEPT ![Len(calls)].ended =
                      IF outcome.kind = "return" THEN "returned" ELSE "raised",
                  ![Len(calls)].body = outcome.body]

Min(a, b) == IF a <= b THEN a ELSE b

(* FastAPI's answer to a query parameter that fails its declared validation *)
RequestValidationError ==
    [kind |-> "RequestValidationError", status |-> 422, detail |-> NoDetail,
     body |-> NoBody]

-----------------------------------------------------------------------------
(* GET /account-insights *)

(* enum=["day", "week", "days_28"] of the period parameter (line 66) *)
PeriodEnum == {"day", "week", "days_28"}

(* The validation of the query parameter `period` (lines 65-67). The        *)
(* parameter is declared `period: str = Query("day", description=...,       *)
(* enum=[...])`: its type is str, and enum= is not one of Query's           *)
(* validation arguments (gt, ge, lt, le, min_length, max_length, pattern),  *)
(* it is an extra keyword that goes to the OpenAPI schema alone. Every      *)
(* string is accepted.                                                      *)
PeriodAccepted(p) == p \in STRING

PeriodInputs == PeriodEnum \cup {"lifetime"}

(* The conversion of one upstream entry to InsightData (lines 21-27): a     *)
(* pydantic model keeps the declared fields, drops any other, and does not  *)
(* validate without a declared field.                                       *)
InsightDataValid(e) == DeclaredFields \subseteq DOMAIN e

InsightData(e) == [f \in DeclaredFields |-> e[f]]

(* A response built from the first entry alone. *)
AccountInsightsResponseFirstOnly(data) ==
    [kind |-> "AccountInsightsResponse",
     val |-> [data |-> [i \in 1..Min(1, Len(data)) |-> InsightData(data[i])]]]

(* AccountInsightsResponse(data=...) (lines 30-31, 128) *)
AccountInsightsResponse(data) ==
    [kind |-> "AccountInsightsResponse",
     val |-> [data |-> [i \in 1..Len(data) |-> InsightData(data[i])]]]

(* Lines 126-131, given how make_api_call ended. data["data"] raises        *)
(* TypeError on a JSON array and KeyError on an object without "data"; an   *)
(* HTTPException is re-raised as it is and any other exception is not       *)
(* caught.                                                                  *)
AccountInsightsResult(o) ==
    IF o.kind # "return" THEN o
    ELSE CASE o.body.kind = "object" ->
                 IF \A i \in 1..Len(o.body.val.data) :
                        InsightDataValid(o.body.val.data[i])
                 THEN Returned(AccountInsightsResponse(o.body.val.data))
                 ELSE Raised("ValidationError")
           [] o.body.kind = "error_obj" -> Raised("KeyError")
           [] OTHER -> Raised("TypeError")

(* The request arrives: parameter validation, then lines 118-127 up to the  *)
(* upstream call. metrics, since and until go into params and nowhere else. *)
get_account_insights ==
    /\ handler = "get_account_insights"
    /\ pc = "request"
    /\ IF PeriodAccepted(period)
       THEN /\ CallUpstream("insights", 0, calls)
            /\ pc' = "make_api_call"
            /\ UNCHANGED result
       ELSE /\ result' = RequestValidationError
            /\ pc' = "done"
            /\ UNCHANGED api_vars
            /\ UNCHANGED calls
    /\ UNCHANGED <<handler, period, limit, posts, post_index,
                   posts_with_engagement>>
    /\ UNCHANGED growth_vars
    /\ UNCHANGED trend_vars

(* make_api_call has ended: lines 128-131. *)
get_account_insights_return ==
    /\ handler = "get_account_insights"
    /\ pc = "make_api_call"
    /\ api_pc = "done"
    /\ result' = AccountInsightsResult(outcome)
    /\ calls' = CallEnded
    /\ pc' = "done"
    /\ UNCHANGED <<handler, period, limit, posts, post_index,
                   posts_with_engagement>>
    /\ UNCHANGED api_vars
    /\ UNCHANGED growth_vars
    /\ UNCHANGED trend_vars

InitInsights ==
    /\ IdleApi
    /\ IdleGrowth
    /\ IdleTrends
    /\ handler = "get_account_insights"
    /\ pc = "request"
    /\ period \in PeriodInputs
    /\ limit = 0
    /\ posts = <<>>
    /\ post_index = 0
    /\ posts_with_engagement = <<>>
    /\ result = NoOutcome
    /\ calls = <<>>

NextInsights ==
    \/ get_account_insights
    \/ make_api_call
    \/ get_account_insights_return

SpecInsights == InitInsights /\ [][NextInsights]_vars

(* C5: a request whose period is outside day, week, days_28 is rejected     *)
(* with a validation error and makes no upstream call.                      *)
C5_InvalidPeriodRejected ==
    period \notin PeriodEnum =>
        /\ calls = <<>>
        /\ api_pc = "idle"
        /\ pc = "done" => result = RequestValidationError

(* C9 as stated: on success the response data is the upstream data list     *)
(* itself, entry for entry, and an HTTPException of the helper reaches the  *)
(* caller unchanged.                                                        *)
C9_DataVerbatim ==
    pc = "done" =>
        /\ result.kind = "return" =>
              /\ outcome.kind = "return"
              /\ result.body.val.data = outcome.body.val.data
        /\ outcome.kind = "HTTPException" => result = outcome

(* C9 as amended: on success the response data has one entry per upstream   *)
(* entry, in the same order, each holding exactly the six declared fields   *)
(* with the upstream entry's values (a field of an upstream entry that      *)
(* InsightData does not declare is dropped); an HTTPException of the helper *)
(* reaches the caller unchanged.                                            *)
C9_DeclaredFieldsVerbatim ==
    pc = "done" =>
        /\ result.kind = "return" =>
              /\ outcome.kind = "return"
              /\ outcome.body.kind = "object"
              /\ Len(result.body.val.data) = Len(outcome.body.val.data)
              /\ \A i \in 1..Len(result.body.val.data) :
                    /\ DOMAIN result.body.val.data[i] = DeclaredFields
                    /\ \A f \in DeclaredFields :
                          result.body.val.data[i][f] = outcome.body.val.data[i][f]
        /\ outcome.kind = "HTTPException" => result = outcome

C9_Witness ==
    /\ handler = "get_account_insights"
    /\ pc = "done"
    /\ result.kind = "return"
    /\ Len(result.body.val.data) = 2
    /\ result.body.val.data[1].name # result.body.val.data[2].name
    /\ "total_value" \in DOMAIN outcome.body.val.data[1]


-----------------------------------------------------------------------------
(* GET /top-posts *)

(* limit: int = Query(5, ..., ge=1, le=50) (line 175) *)
LimitAccepted(l) == l >= LimitGe /\ l <= LimitLe

LimitInputs == 0..MaxLimit \cup {LimitLe + 1}

(* fetch_recent_posts (lines 265-277), given how make_api_call ended:       *)
(* response_data["data"], or the exception passed on.                       *)
fetch_recent_posts(o) ==
    IF o.kind # "return" THEN o
    ELSE CASE o.body.kind = "object" -> o
           [] o.body.kind = "error_obj" -> Raised("KeyError")
           [] OTHER -> Raised("TypeError")

(* A get_post_engagement that swallows the HTTPException and answers with   *)
(* zero counts.                                                             *)
get_post_engagement_swallowing(o) ==
    IF o.kind = "HTTPException"
    THEN Returned([kind |-> "object",
                   val |-> [like_count |-> 0, comments_count |-> 0]])
    ELSE o

(* get_post_engagement (lines 280-289), given how make_api_call ended: its  *)
(* return value, or the HTTPException printed and raised again.             *)
get_post_engagement(o) == o

(* calculate_engagement_score (lines 292-297) *)
calculate_engagement_score(engagement_data, media_type) ==
    engagement_data.like_count + engagement_data.comments_count

(* The dict appended to posts_with_engagement (lines 203-215) *)
PostWithEngagement(post, engagement_data) ==
    [id |-> post.id,
     like_count |-> engagement_data.like_count,
     comments_count |-> engagement_data.comments_count,
     engagement_score |->
         calculate_engagement_score(engagement_data, post.media_type)]

(* An insertion that puts x before the elements of equal score: the order   *)
(* of an unstable sort, or of an ascending sort reversed.                   *)
InsertBeforeTies(s, x) ==
    LET before == {j \in 1..Len(s) : s[j].engagement_score > x.engagement_score}
        k == Cardinality(before)
    IN  SubSeq(s, 1, k) \o <<x>> \o SubSeq(s, k + 1, Len(s))

(* list.insert keeping the order of sorted(..., reverse=True): x goes after *)
(* every element whose score is at least its own.                           *)
InsertByScore(s, x) ==
    LET before == {j \in 1..Len(s) : s[j].engagement_score >= x.engagement_score}
        k == Cardinality(before)
    IN  SubSeq(s, 1, k) \o <<x>> \o SubSeq(s, k + 1, Len(s))

RECURSIVE SortedInsertion(_)
SortedInsertion(s) ==
    IF s = <<>> THEN <<>>
    ELSE InsertByScore(SortedInsertion(SubSeq(s, 1, Len(s) - 1)), s[Len(s)])

(* sorted(posts_with_engagement, key=engagement_score, reverse=True) (lines *)
(* 218-220): Python's sort is stable, also with reverse=True.               *)
sorted_by_engagement_score(s) == SortedInsertion(s)

(* [:limit] (line 220) *)
Slice(s, n) == SubSeq(s, 1, Min(n, Len(s)))

(* TopPostsResponse(top_posts=...) (lines 43-44, 222) *)
TopPostsResponse(top_posts) ==
    Returned([kind |-> "TopPostsResponse", val |-> [top_posts |-> top_posts]])

(* Lines 217-222 *)
RankAndReturn(with_engagement, n) ==
    TopPostsResponse(Slice(sorted_by_engagement_score(with_engagement), n))

(* The request arrives: parameter validation, then lines 193-197 up to the  *)
(* upstream call of fetch_recent_posts. time_range goes into the `since`    *)
(* parameter of that call and nowhere else.                                 *)
get_top_posts ==
    /\ handler = "get_top_posts"
    /\ pc = "request"
    /\ IF LimitAccepted(limit)
       THEN /\ CallUpstream("media", 0, calls)
            /\ pc' = "fetch_recent_posts"
            /\ UNCHANGED result
       ELSE /\ result' = RequestValidationError
            /\ pc' = "done"
            /\ UNCHANGED api_vars
            /\ UNCHANGED calls
    /\ UNCHANGED <<handler, period, limit, posts, post_index,
                   posts_with_engagement>>
    /\ UNCHANGED growth_vars
    /\ UNCHANGED trend_vars

(* fetch_recent_posts has ended (line 197): its exception ends the request; *)
(* otherwise the for loop starts with the first post's engagement call, or, *)
(* with no post, the empty list is ranked and returned.                     *)
get_top_posts_fetched ==
    /\ handler = "get_top_posts"
    /\ pc = "fetch_recent_posts"
    /\ api_pc = "done"
    /\ LET fetched == fetch_recent_posts(outcome) IN
       IF fetched.kind # "return"
       THEN /\ result' = fetched
            /\ pc' = "done"
            /\ calls' = CallEnded
            /\ UNCHANGED <<posts, post_index>>
            /\ UNCHANGED api_vars
       ELSE /\ posts' = fetched.body.val.data
            /\ IF fetched.body.val.data = <<>>
               THEN /\ result' = RankAndReturn(<<>>, limit)
                    /\ pc' = "done"
                    /\ calls' = CallEnded
                    /\ UNCHANGED post_index
                    /\ UNCHANGED api_vars
               ELSE /\ post_index' = 1
                    /\ CallUpstream("post", fetched.body.val.data[1].id, CallEnded)
                    /\ pc' = "get_post_engagement"
                    /\ UNCHANGED result
    /\ UNCHANGED <<handler, period, limit, posts_with_engagement>>
    /\ UNCHANGED growth_vars
    /\ UNCHANGED trend_vars

(* get_post_engagement has ended for posts[post_index] (lines 202-215): its *)
(* exception ends the request; otherwise the post is appended and the loop  *)
(* goes on to the next post, or, after the last, to lines 217-222.          *)
(* engagement_data["like_count"] raises KeyError on an object without it    *)
(* and TypeError on a JSON array.                                           *)
get_top_posts_engagement ==
    /\ handler = "get_top_posts"
    /\ pc = "get_post_engagement"
    /\ api_pc = "done"
    /\ LET engagement == get_post_engagement(outcome)
           post == posts[post_index]
       IN
       IF engagement.kind # "return" \/ engagement.body.kind # "object"
       THEN /\ result' = IF engagement.kind # "return" THEN engagement
                         ELSE IF engagement.body.kind = "error_obj"
                              THEN Raised("KeyError")
                              ELSE Raised("TypeError")
            /\ pc' = "done"
            /\ calls' = CallEnded
            /\ UNCHANGED <<post_index, posts_with_engagement>>
            /\ UNCHANGED api_vars
       ELSE LET appended ==
                    Append(posts_with_engagement,
                           PostWithEngagement(post, engagement.body.val))
            IN  /\ posts_with_engagement' = appended
                /\ IF post_index < Len(posts)
                   THEN /\ post_index' = post_index + 1
                        /\ CallUpstream("post", posts[post_index + 1].id, CallEnded)
                        /\ UNCHANGED <<pc, result>>
                   ELSE /\ result' = RankAndReturn(appended, limit)
                        /\ pc' = "done"
                        /\ calls' = CallEnded
                        /\ UNCHANGED post_index
                        /\ UNCHANGED api_vars
    /\ UNCHANGED <<handler, period, limit, posts>>
    /\ UNCHANGED growth_vars
    /\ UNCHANGED trend_vars

InitTopPosts ==
    /\ IdleApi
    /\ IdleGrowth
    /\ IdleTrends
    /\ handler = "get_top_posts"
    /\ pc = "request"
    /\ period = ""
    /\ limit \in LimitInputs
    /\ posts = <<>>
    /\ post_index = 0
    /\ posts_with_engagement = <<>>
    /\ result = NoOutcome
    /\ calls = <<>>

NextTopPosts ==
    \/ get_top_posts
    \/ make_api_call
    \/ get_top_posts_fetched
    \/ get_top_posts_engagement

SpecTopPosts == InitTopPosts /\ [][NextTopPosts]_vars


(* Reading the history of a /top-posts request *)

TopPosts == result.body.val.top_posts

(* The indices, in calls, of the engagement calls *)
PostCalls == {k \in 1..Len(calls) : calls[k].url = "post"}

(* What the upstream reported for the post with this id *)
ReportedFor(id) ==
    calls[CHOOSE k \in PostCalls :
              calls[k].id = id /\ calls[k].ended = "returned"].body.val

ReportedScore(id) == ReportedFor(id).like_count + ReportedFor(id).comments_count

FetchedIds == {posts[i].id : i \in 1..Len(posts)}

ReturnedIds == {TopPosts[i].id : i \in 1..Len(TopPosts)}

(* C6: when every engagement call succeeds, /top-posts returns exactly      *)
(* min(limit, number of fetched posts) entries, each a fetched post with    *)
(* engagement_score = like_count + comments_count as the upstream reported  *)
(* them (whatever the media_type), in non-increasing order of score, posts  *)
(* of equal score in their fetched order, and no post left out scores       *)
(* higher than a returned one. The list is returned whenever the listing    *)
(* and every engagement call returned a JSON object.                        *)
C6_TopPostsRanked ==
    /\ ( /\ handler = "get_top_posts"
         /\ pc = "done"
         /\ calls # <<>>
         /\ \A k \in 1..Len(calls) :
                calls[k].ended = "returned" /\ calls[k].body.kind = "object" )
       => result.kind = "return"
    /\ (handler = "get_top_posts" /\ pc = "done" /\ result.kind = "return") =>
        /\ Len(TopPosts) = Min(limit, Len(posts))
        /\ Cardinality(ReturnedIds) = Len(TopPosts)
        /\ ReturnedIds \subseteq FetchedIds
        /\ \A i \in 1..Len(TopPosts) :
              /\ TopPosts[i].like_count = ReportedFor(TopPosts[i].id).like_count
              /\ TopPosts[i].comments_count =
                     ReportedFor(TopPosts[i].id).comments_count
              /\ TopPosts[i].engagement_score = ReportedScore(TopPosts[i].id)
        /\ \A i, j \in 1..Len(TopPosts) :
              i < j =>
                 /\ TopPosts[i].engagement_score >= TopPosts[j].engagement_score
                 /\ TopPosts[i].engagement_score = TopPosts[j].engagement_score
                        => TopPosts[i].id < TopPosts[j].id
        /\ \A id \in FetchedIds \ ReturnedIds :
              \A i \in 1..Len(TopPosts) :
                 /\ ReportedScore(id) <= TopPosts[i].engagement_score
                 /\ ReportedScore(id) = TopPosts[i].engagement_score
                        => TopPosts[i].id < id

(* Two posts fetched, of different media types, limit 1: the second post   *)
(* scores higher and is the one returned.                                   *)
C6_Witness ==
    /\ handler = "get_top_posts"
    /\ pc = "done"
    /\ result.kind = "return"
    /\ Len(posts) = 2
    /\ limit = 1
    /\ posts[1].media_type # posts[2].media_type
    /\ Len(TopPosts) = 1
    /\ TopPosts[1].id = 2
    /\ ReportedScore(2) > ReportedScore(1)

(* C7: when the engagement call for a post fails, the request fails with    *)
(* that failure: no top_posts list is returned, the failed call is the last *)
(* upstream call of the request (no engagement call is made for the posts   *)
(* after it), and the calls made are those for the posts up to the failing  *)
(* one, in order. A list is returned only when a call for every fetched     *)
(* post was made and returned.                                              *)
C7_EngagementFailureFailsRequest ==
    (handler = "get_top_posts" /\ pc = "done") =>
        /\ (\E k \in PostCalls : calls[k].ended = "raised") =>
              /\ result.kind # "return"
              /\ result = outcome
              /\ outcome.kind \notin {"return", "none"}
              /\ calls[Len(calls)].ended = "raised"
              /\ \A k \in 1..(Len(calls) - 1) : calls[k].ended = "returned"
              /\ Len(calls) = 1 + post_index
              /\ post_index <= Len(posts)
              /\ Len(posts_with_engagement) = post_index - 1
        /\ \A k \in PostCalls : calls[k].id = posts[k - 1].id
        /\ result.kind = "return" =>
              /\ Cardinality(PostCalls) = Len(posts)
              /\ \A k \in 1..Len(calls) : calls[k].ended = "returned"

(* The call for the first of two posts fails with the rate-limit failure    *)
(* after two 429 retries: the request fails with it, and no call is made    *)
(* for the second post.                                                     *)
C7_Witness ==
    /\ handler = "get_top_posts"
    /\ pc = "done"
    /\ Len(posts) = 2
    /\ Len(calls) = 2
    /\ calls[2].ended = "raised"
    /\ retries = 2
    /\ posts_with_engagement = <<>>
    /\ result = HTTPException(429, RateLimitDetail)


-----------------------------------------------------------------------------
(* calculate_growth *)

(* Python floats as exact rationals [num, den] in lowest terms, den > 0.    *)
(* Rounding is not modelled.                                                *)
Abs(n) == IF n < 0 THEN -n ELSE n

RECURSIVE GCD(_, _)
GCD(a, b) == IF b = 0 THEN a ELSE GCD(b, a % b)

Rat(n, d) ==
    LET g == GCD(Abs(n), Abs(d))
        sign == IF d < 0 THEN -1 ELSE 1
    IN  [num |-> sign * (n \div g), den |-> sign * (d \div g)]

RatSub(a, b) == Rat(a.num * b.den - b.num * a.den, a.den * b.den)

RatDiv(a, b) == Rat(a.num * b.den, a.den * b.num)

RatMul(a, b) == Rat(a.num * b.num, a.den * b.den)

RatInt(n) == [num |-> n, den |-> 1]

GrowthInputs == {Rat(n, d) : n \in -1..MaxNum, d \in 1..MaxDen}

(* The labels get_growth_trends passes (lines 157, 162) *)
MetricLabels == {"Follower Growth Rate", "Engagement Rate Change"}

(* A calculate_growth that returns the fraction, not the percentage. *)
calculate_growth_fraction(current, previous, name) ==
    LET growth_rate ==
            IF previous.num > 0
            THEN RatDiv(RatSub(current, previous), previous)
            ELSE IF current.num > 0 THEN RatInt(100) ELSE RatInt(0)
    IN  [metric |-> name, current_value |-> current, previous_value |-> previous,
         growth_rate |-> growth_rate]

(* calculate_growth (lines 335-349) *)
calculate_growth(current, previous, name) ==
    LET growth_rate ==
            IF previous.num > 0
            THEN RatMul(RatDiv(RatSub(current, previous), previous), RatInt(100))
            ELSE IF current.num > 0 THEN RatInt(100) ELSE RatInt(0)
    IN  [metric |-> name, current_value |-> current, previous_value |-> previous,
         growth_rate |-> growth_rate]

(* calculate_growth(current_value, previous_value, metric_name) is called   *)
(* and returns.                                                             *)
calculate_growth_call ==
    /\ handler = "calculate_growth"
    /\ pc = "call"
    /\ growth' = calculate_growth(current_value, previous_value, metric_name)
    /\ pc' = "done"
    /\ UNCHANGED <<current_value, previous_value, metric_name>>
    /\ UNCHANGED <<handler, period, limit, posts, post_index,
                   posts_with_engagement, result, calls>>
    /\ UNCHANGED api_vars
    /\ UNCHANGED trend_vars

InitGrowth ==
    /\ IdleApi
    /\ IdleTrends
    /\ IdleHandler("calculate_growth", "call")
    /\ current_value \in GrowthInputs
    /\ previous_value \in GrowthInputs
    /\ metric_name \in MetricLabels
    /\ growth = NoTrend

NextGrowth == calculate_growth_call

SpecGrowth == InitGrowth /\ [][NextGrowth]_vars

(* C8: calculate_growth returns metric = name, current_value = current,     *)
(* previous_value = previous, and, for previous > 0, growth_rate =          *)
(* (current - previous) / previous * 100 (0 when current = previous,        *)
(* negative when current < previous); for previous = 0, growth_rate = 100   *)
(* when current > 0 and 0 otherwise. The quotient is stated multiplied out: *)
(* growth_rate * previous = (current - previous) * 100.                     *)
C8_GrowthRateFormula ==
    (handler = "calculate_growth" /\ pc = "done") =>
        LET g == growth.growth_rate
            c == current_value
            p == previous_value
        IN  /\ growth.metric = metric_name
            /\ growth.current_value = c
            /\ growth.previous_value = p
            /\ g.den > 0
            /\ p.num > 0 =>
                  /\ g.num * p.num * c.den
                        = 100 * (c.num * p.den - p.num * c.den) * g.den
                  /\ c = p => g.num = 0
                  /\ c.num * p.den < p.num * c.den => g.num < 0
            /\ p.num = 0 =>
                  g = IF c.num > 0 THEN [num |-> 100, den |-> 1]
                      ELSE [num |-> 0, den |-> 1]

(* A drop from 3/2 to 1/2: growth_rate is -200/3 percent. *)
C8_Witness ==
    /\ handler = "calculate_growth"
    /\ pc = "done"
    /\ previous_value = [num |-> 3, den |-> 2]
    /\ current_value = [num |-> 1, den |-> 2]
    /\ growth.growth_rate = [num |-> -200, den |-> 3]

-----------------------------------------------------------------------------
(* Dates and the period text of /growth-trends *)

(* A datetime is the whole seconds and the microseconds of a naive local    *)
(* time, counted from 1970-01-01 00:00:00; the local UTC offset is taken as *)
(* fixed over the lookback period.                                          *)
ClockBase == 1793000000

HalfSecond == 500000

(* datetime.now() (line 146) *)
Nows == {[secs |-> ClockBase + s, micros |-> HalfSecond] : s \in 0..MaxClock}

(* dt - timedelta(days=n) and dt + timedelta(days=n) (lines 147-148) *)
MinusDays(dt, n) == [secs |-> dt.secs - n * SecondsPerDay, micros |-> dt.micros]

PlusDays(dt, n) == [secs |-> dt.secs + n * SecondsPerDay, micros |-> dt.micros]

(* Whether dt - timedelta(days=n) is before datetime.min: the subtraction   *)
(* raises OverflowError.                                                    *)
BeforeMin(dt, n) == n > dt.secs \div SecondsPerDay + DaysBeforeEpoch

(* int(dt.timestamp()) (lines 306-307): the fraction of a second is cut.    *)
timestamp(dt) == dt.secs

(* A query text is a sequence of characters. *)
Digits == <<"0", "1", "2", "3", "4", "5", "6", "7", "8", "9">>

IsDigit(c) == \E i \in 1..Len(Digits) : Digits[i] = c

DigitValue(c) == (CHOOSE i \in 1..Len(Digits) : Digits[i] = c) - 1

(* int(text) of a text of decimal digits (line 145) *)
RECURSIVE int(_)
int(text) ==
    IF text = <<>> THEN 0
    ELSE 10 * int(SubSeq(text, 1, Len(text) - 1)) + DigitValue(text[Len(text)])

(* str(n) for n >= 0 *)
RECURSIVE str(_)
str(n) ==
    IF n < 10 THEN <<Digits[n + 1]>>
    ELSE str(n \div 10) \o <<Digits[(n % 10) + 1]>>

(* pattern="^(\d+d)$" of the period parameter (lines 136-138) *)
TrendPeriodAccepted(p) ==
    /\ Len(p) >= 2
    /\ p[Len(p)] = "d"
    /\ \A i \in 1..(Len(p) - 1) : IsDigit(p[i])

(* The period texts tried: every N in 0..MaxDays, the default "30d"         *)
(* (line 137), N written with a leading zero, a lookback longer than the    *)
(* calendar, and texts the pattern rejects.                                 *)
TrendPeriodInputs ==
    {str(n) \o <<"d">> : n \in 0..MaxDays}
        \cup {<<"3", "0", "d">>, <<"0", "1", "d">>,
              <<"8", "0", "0", "0", "0", "0", "d">>,
              <<"d">>, <<"7">>, <<"-", "1", "d">>, <<"w", "e", "e", "k">>}

-----------------------------------------------------------------------------
(* fetch_account_data *)

(* sum(point["values"][0]["value"] for point in data if point["name"] ==    *)
(* name) (lines 313-326): of every entry with that name, the value of the   *)
(* first element of its "values".                                           *)
RECURSIVE SumOfFirstValues(_, _)
SumOfFirstValues(data, name) ==
    IF data = <<>> THEN 0
    ELSE (IF Head(data).name = name THEN Head(data).values[1].value ELSE 0)
            + SumOfFirstValues(Tail(data), name)

(* point["values"][0] raises IndexError on an entry whose "values" is empty *)
FirstValuesExist(data) ==
    \A i \in 1..Len(data) :
        data[i].name \in AccountMetrics => data[i].values # <<>>

AccountData(follower_count, engagement_rate) ==
    [kind |-> "account_data",
     val |-> [follower_count |-> follower_count,
              engagement_rate |-> engagement_rate]]

(* Lines 311-332, given how make_api_call ended. An HTTPException is        *)
(* re-raised as it is; no other exception is caught. ["data"] raises        *)
(* TypeError on a JSON array and KeyError on an object without "data".      *)
fetch_account_data(o) ==
    IF o.kind # "return" THEN o
    ELSE CASE o.body.kind = "object" ->
                 LET data == o.body.val.data
                     reach == SumOfFirstValues(data, "reach")
                     impressions == SumOfFirstValues(data, "impressions")
                 IN  IF ~FirstValuesExist(data) THEN Raised("IndexError")
                     ELSE Returned(AccountData(
                              SumOfFirstValues(data, "follower_count"),
                              IF reach > 0 THEN Rat(impressions, reach)
                              ELSE Zero))
           [] o.body.kind = "error_obj" -> Raised("KeyError")
           [] OTHER -> Raised("TypeError")

(* fetch_account_data(start, end) is called: lines 302-312 up to the        *)
(* upstream call, with since and until as sent.                             *)
fetch_account_data_call(start, end) ==
    /\ CallUpstream("account", Len(fetches) + 1, calls)
    /\ fetches' = Append(fetches, [since |-> timestamp(start),
                                   until |-> timestamp(end)])

-----------------------------------------------------------------------------
(* GET /growth-trends *)

AnErrorOccurredDetail == [kind |-> "an_error_occurred", val |-> 0]

(* The except clauses of lines 167-170: an HTTPException is re-raised, any  *)
(* other exception becomes HTTPException 500 "An error occurred: ...".      *)
GrowthTrendsFailure(o) ==
    IF o.kind = "HTTPException" THEN o
    ELSE HTTPException(500, AnErrorOccurredDetail)

(* Lines 154-166: the two trends, current from current_data and previous    *)
(* from previous_data.                                                      *)
GrowthTrendsResponse(current, previous) ==
    [kind |-> "GrowthTrendsResponse",
     val |-> [trends |->
                <<calculate_growth(RatInt(current.follower_count),
                                   RatInt(previous.follower_count),
                                   "Follower Growth Rate"),
                  calculate_growth(current.engagement_rate,
                                   previous.engagement_rate,
                                   "Engagement Rate Change")>>]]

(* The request arrives: parameter validation, lines 145-148, and line 151   *)
(* up to the upstream call of fetch_account_data(mid_date, end_date).       *)
(* Lines 145-148 are outside the try statement.                             *)
get_growth_trends ==
    /\ handler = "get_growth_trends"
    /\ pc = "request"
    /\ IF ~TrendPeriodAccepted(period)
       THEN /\ result' = RequestValidationError
            /\ pc' = "done"
            /\ UNCHANGED api_vars
            /\ UNCHANGED <<calls, days, start_date, mid_date, end_date, fetches>>
       ELSE \E now \in Nows :
              LET n == int(SubSeq(period, 1, Len(period) - 1)) IN
              /\ days' = n
              /\ end_date' = now
              /\ IF BeforeMin(now, n)
                 THEN /\ result' = Raised("OverflowError")
                      /\ pc' = "done"
                      /\ UNCHANGED api_vars
                      /\ UNCHANGED <<calls, start_date, mid_date, fetches>>
                 ELSE LET start == MinusDays(now, n)
                          mid == PlusDays(start, n \div 2)
                      IN  /\ start_date' = start
                          /\ mid_date' = mid
                          /\ fetch_account_data_call(mid, now)
                          /\ pc' = "current_data"
                          /\ UNCHANGED result
    /\ UNCHANGED <<handler, period, limit, posts, post_index,
                   posts_with_engagement>>
    /\ UNCHANGED <<current_data, previous_data>>
    /\ UNCHANGED growth_vars

(* The first fetch_account_data has ended: line 151, then line 152 up to    *)
(* the upstream call of fetch_account_data(start_date, mid_date).           *)
get_growth_trends_current ==
    /\ handler = "get_growth_trends"
    /\ pc = "current_data"
    /\ api_pc = "done"
    /\ LET r == fetch_account_data(outcome) IN
       IF r.kind = "return"
       THEN /\ current_data' = r.body.val
            /\ CallUpstream("account", Len(fetches) + 1, CallEnded)
            /\ fetches' = Append(fetches, [since |-> timestamp(start_date),
                                           until |-> timestamp(mid_date)])
            /\ pc' = "previous_data"
            /\ UNCHANGED result
       ELSE /\ result' = GrowthTrendsFailure(r)
            /\ calls' = CallEnded
            /\ pc' = "done"
            /\ UNCHANGED api_vars
            /\ UNCHANGED <<current_data, fetches>>
    /\ UNCHANGED <<handler, period, limit, posts, post_index,
                   posts_with_engagement>>
    /\ UNCHANGED <<days, start_date, mid_date, end_date, previous_data>>
    /\ UNCHANGED growth_vars

(* The second fetch_account_data has ended: lines 152-170. *)
get_growth_trends_previous ==
    /\ handler = "get_growth_trends"
    /\ pc = "previous_data"
    /\ api_pc = "done"
    /\ LET r == fetch_account_data(outcome) IN
       IF r.kind = "return"
       THEN /\ previous_data' = r.body.val
            /\ result' = Returned(GrowthTrendsResponse(current_data, r.body.val))
       ELSE /\ result' = GrowthTrendsFailure(r)
            /\ UNCHANGED previous_data
    /\ calls' = CallEnded
    /\ pc' = "done"
    /\ UNCHANGED <<handler, period, limit, posts, post_index,
                   posts_with_engagement>>
    /\ UNCHANGED <<days, start_date, mid_date, end_date, fetches, current_data>>
    /\ UNCHANGED api_vars
    /\ UNCHANGED growth_vars

InitTrends ==
    /\ IdleApi
    /\ IdleGrowth
    /\ IdleTrends
    /\ handler = "get_growth_trends"
    /\ pc = "request"
    /\ period \in TrendPeriodInputs
    /\ limit = 0
    /\ posts = <<>>
    /\ post_index = 0
    /\ posts_with_engagement = <<>>
    /\ result = NoOutcome
    /\ calls = <<>>

NextTrends ==
    \/ get_growth_trends
    \/ make_api_call
    \/ get_growth_trends_current
    \/ get_growth_trends_previous

SpecTrends == InitTrends /\ [][NextTrends]_vars

-----------------------------------------------------------------------------
(* Reading the history of a /growth-trends request *)

(* The window of the k-th fetch_account_data call, as sent upstream, and    *)
(* what the helper made of that call's reply.                               *)
WindowLength(k) == fetches[k].until - fetches[k].since

FetchedData(k) == fetch_account_data(Returned(calls[k].body)).body.val

Trends == result.body.val.trends

(* C11: for every accepted lookback period of N days, the windows passed to *)
(* fetch_account_data have equal length, the previous window ends exactly   *)
(* where the current one begins, together they cover exactly the N days     *)
(* ending now, and in both trends current_value comes from the later window *)
(* and previous_value from the earlier one.                                 *)
C11_WindowsEqualAdjacentCovering ==
    handler = "get_growth_trends" =>
        /\ Len(fetches) >= 1 => fetches[1].until = timestamp(end_date)
        /\ Len(fetches) = 2 =>
              /\ WindowLength(1) = WindowLength(2)
              /\ fetches[2].until = fetches[1].since
              /\ fetches[2].since = timestamp(end_date) - days * SecondsPerDay
              /\ WindowLength(1) + WindowLength(2) = days * SecondsPerDay
        /\ (pc = "done" /\ result.kind = "return") =>
              /\ Len(fetches) = 2
              /\ Trends[1].current_value = RatInt(FetchedData(1).follower_count)
              /\ Trends[1].previous_value = RatInt(FetchedData(2).follower_count)
              /\ Trends[2].current_value = FetchedData(1).engagement_rate
              /\ Trends[2].previous_value = FetchedData(2).engagement_rate

(* The sum of the values of every data point of every entry with that name  *)
RECURSIVE SumOfValues(_)
SumOfValues(points) ==
    IF points = <<>> THEN 0 ELSE Head(points).value + SumOfValues(Tail(points))

RECURSIVE SumOfAllValues(_, _)
SumOfAllValues(data, name) ==
    IF data = <<>> THEN 0
    ELSE (IF Head(data).name = name THEN SumOfValues(Head(data).values) ELSE 0)
            + SumOfAllValues(Tail(data), name)

(* What the k-th fetch_account_data call returned to the handler *)
ReturnedData(k) == IF k = 1 THEN current_data ELSE previous_data

(* C12: from a reply that is a JSON object, fetch_account_data returns      *)
(* follower_count = the sum of the values of all data points of all entries *)
(* named follower_count, and engagement_rate = total impressions / total    *)
(* reach, the totals summed the same way, or 0 when total reach is 0.       *)
C12_SumsEveryDataPoint ==
    handler = "get_growth_trends" =>
        \A k \in 1..Len(calls) :
            (calls[k].ended = "returned" /\ calls[k].body.kind = "object") =>
                LET data == calls[k].body.val.data
                    reach == SumOfAllValues(data, "reach")
                    impressions == SumOfAllValues(data, "impressions")
                IN  /\ ReturnedData(k).follower_count
                          = SumOfAllValues(data, "follower_count")
                    /\ ReturnedData(k).engagement_rate
                          = IF reach > 0 THEN Rat(impressions, reach) ELSE Zero

====
